---- MODULE Spec2Model ----
(***************************************************************************)
(* The delivery orchestration of react-native-watch-connectivity-pro: the  *)
(* native module RNWatchConnectivityPro (ios/RNWatchConnectivityPro.swift) *)
(* with its outbound message queue, the drain processMessageQueueInternal, *)
(* the reply-handler map, and the two host-facing sendMessage wrappers     *)
(* (index.js and the TypeScript wrapper built on sendMessageWithReply).    *)
(*                                                                         *)
(* Execution contexts.  The module's exported methods run on the module's  *)
(* serial method queue, WCSessionDelegate callbacks on WatchConnectivity's *)
(* background queue, DispatchQueue.main blocks on the main queue.  The     *)
(* transport's replyHandler / errorHandler closures run whenever the       *)
(* transport calls them.  Nothing in the source serialises these contexts, *)
(* so the drain is modelled statement group by statement group, one        *)
(* instance per context.                                                   *)
(***************************************************************************)
EXTENDS Integers, Sequences, FiniteSets, TLC

\* ---------------------------------------------------------------- bounds
MaxMsgs == 2          \* sendMessage calls (Spec)
MaxTasks == 1         \* drain passes pending or running at once (Spec)
MaxRaceMsgs == 1      \* sendMessage calls (SpecRace)
MaxRaceTasks == 2     \* drain passes pending or running at once (SpecRace)
MaxQueued == 12       \* sendMessage calls (SpecBatch)
MaxLive == 6          \* sendMessage calls (SpecLive)
MaxLiveTasks == 2     \* drain passes pending or running at once (SpecLive)
MaxReplyMsgs == 1     \* sendMessage calls (SpecReply)
MaxEventMsgs == 2     \* sendMessage calls (SpecEvents)
MaxSignalMsgs == 1    \* sendMessage calls (SpecSignals)
MaxSignalTasks == 1   \* drain passes pending or running at once (SpecSignals)
MaxInbound == 2       \* inbound messages that expect a reply
MaxHandlerInbound == 1  \* inbound messages that expect a reply (SpecHandlers)
MaxCountQueued == 6   \* sendMessage calls (SpecCount)
MaxPayloadMsgs == 3   \* messages submitted (SpecPayload)
InvokeCap == 2        \* saturation of the observation counters
EventWrap == 2        \* event counters count modulo this number
MaxTransfers == 2     \* transfers the transport is asked to start (SpecTransfer)
MaxTransferIds == 3   \* UUIDs the module generates for transfers (SpecTransfer)
MaxProgressTransfers == 1  \* transfers started (SpecProgress)
MaxProgressIds == 2   \* UUIDs the module generates for transfers (SpecProgress)
MaxPosted == 2        \* blocks waiting on the main queue when one more is posted (SpecProgress)

\* ------------------------------------------------------ program constants
batchSize == 5

\* ------------------------------------------------------------ vocabulary
Ctx == {"method", "main", "delegate"}
ActivationStates == {"notActivated", "inactive", "activated"}
Apis == {"js", "ts"}
Shapes == {"typed", "raw"}
UnknownId == 0
MaxOf(S) == CHOOSE m \in S : \A x \in S : x <= m
OutIds == 1..MaxOf({MaxMsgs, MaxRaceMsgs, MaxQueued, MaxLive, MaxReplyMsgs})
InIds == {0 - j : j \in 1..MaxInbound}
HandlerIds == OutIds \cup InIds

\* Transfers of the transport, transfer identifiers of the module (0: none),
\* and the values of fractionCompleted the transport reports, in thousandths.
Transfers == 1..MaxTransfers
TransferIds == 1..MaxTransferIds
Fractions == {400, 405, 1000}

\* The texts the code tests with contains / includes.  The first two are the
\* native reject messages, the rest are error descriptions of the transport.
MsgNotActivatedQueued == "Watch session is not activated, message queued"
MsgNotReachableQueued == "Apple Watch is not reachable, message queued"
ErrNotReachable == "WatchConnectivity session on paired device is not reachable"
ErrSessionInactive == "WatchConnectivity session inactive"
ErrPayload == "Payload could not be delivered"
TransportErrors == {ErrNotReachable, ErrSessionInactive, ErrPayload}

\* String.contains / String.prototype.includes on those texts.
Includes(text, sub) ==
    CASE sub = "not reachable" -> text \in {MsgNotReachableQueued, ErrNotReachable}
      [] sub = "not activated" -> text \in {MsgNotActivatedQueued}
      [] sub = "session inactive" -> text \in {ErrSessionInactive}
      [] OTHER -> FALSE

Min(a, b) == IF a < b THEN a ELSE b
Bump(n) == Min(n + 1, InvokeCap)

\* Array.prefix(n) and Array.dropFirst(n)
Prefix(s, n) == SubSeq(s, 1, Min(n, Len(s)))
DropFirst(s, n) == SubSeq(s, Min(n, Len(s)) + 1, Len(s))

Ids(s) == [k \in 1..Len(s) |-> s[k].id]
InSeq(x, s) == \E k \in 1..Len(s) : s[k] = x

VARIABLES
    activationState,    \* WCSession.activationState
    isReachable,        \* WCSession.isReachable
    hasListeners,
    messageQueue,       \* sequence of queue entries
    isProcessingQueue,
    replyHandlers,      \* keys of the replyHandlers dictionary
    drain,              \* per context: the running processMessageQueueInternal
    inflight,           \* transport sends whose reply/error is outstanding
    deferred,           \* main.async blocks of sessionWatchStateDidChange
    scheduled,          \* main.asyncAfter follow-up passes
    inbound,            \* inbound messages with a reply handler
    nextId,             \* number of sendMessage calls made so far
    msgs,               \* per sendMessage call: what the host and transport saw;
                        \* handed counts the hand-offs since it last entered the queue
    invoked,            \* per handler id: how often the handler was invoked
    ret,                \* result of the last host call other than sendMessage
    queueEvents,        \* messageQueueUpdated events sent, modulo EventWrap
    outstanding,        \* per transfer of the transport: state, fraction, cancel() calls
    fileTransfers,      \* transfer id -> the transfer stored under it, 0 for no entry
    progressObservations, \* transfer id -> the transfer its observation watches, 0 for no entry
    nextTransferId,     \* number of UUIDs generated for transfers so far
    transferEvents,     \* per transfer id: the events posted with that id
    mainQueue,          \* main.async blocks that send a transfer event, in posting order
    lastWatchStateChange, \* the clock reading of the latest stamp, modulo EventWrap
    stateEvents,        \* watchStateUpdated events sent, modulo EventWrap, and the
                        \* queuedMessages field of the latest one
    emitted             \* per transfer id: the progress value, in thousandths, that its
                        \* latest event carried; null before the first

vars == <<activationState, isReachable, hasListeners, messageQueue,
          isProcessingQueue, replyHandlers, drain, inflight, deferred,
          scheduled, inbound, nextId, msgs, invoked, ret, queueEvents,
          outstanding, fileTransfers, progressObservations, nextTransferId,
          transferEvents, mainQueue, emitted, lastWatchStateChange,
          stateEvents>>

sessionVars == <<activationState, isReachable>>
queueVars == <<messageQueue, isProcessingQueue>>
taskVars == <<deferred, scheduled>>
stateVars == <<lastWatchStateChange, stateEvents>>
queueSide == <<messageQueue, isProcessingQueue, replyHandlers, drain, inflight,
               deferred, scheduled, inbound, nextId, msgs, invoked,
               queueEvents, stateVars>>
mainVars == <<mainQueue, emitted>>
transferVars == <<outstanding, fileTransfers, progressObservations,
                  nextTransferId, transferEvents, mainVars>>

\* ------------------------------------------------------------ the values
\* A message dictionary: its keys, and, for the generic wrapper, the keys
\* of the dictionary stored under "message" (<<>> when nothing is wrapped).
Plain(keys) == [keys |-> keys, wraps |-> <<>>]
Wrapper(keys) == [keys |-> {"type", "message", "timestamp"}, wraps |-> <<keys>>]

Entry(id, queuedAt, hasReplyHandler, handlerId, payload) ==
    [id |-> id, queuedAt |-> queuedAt, hasReplyHandler |-> hasReplyHandler,
     handlerId |-> handlerId, payload |-> payload]

IdleDrain == [pc |-> "idle", trigger |-> "none", batch |-> <<>>, i |-> 0,
              remainingQueue |-> <<>>]

Pending == [settled |-> "pending", queued |-> FALSE, reason |-> "", code |-> ""]
Resolved(queued, reason) ==
    [settled |-> "resolved", queued |-> queued, reason |-> reason, code |-> ""]
Rejected(code) ==
    [settled |-> "rejected", queued |-> FALSE, reason |-> "", code |-> code]

NoMsg == [api |-> "none", message |-> {}, wrapperHandler |-> "none",
          enqueued |-> FALSE, cleared |-> FALSE,
          fate |-> "none", handed |-> 0, result |-> Pending]

NoInbound == [type |-> "none", state |-> "none"]

NoStatus == [count |-> 0, isProcessing |-> FALSE,
             oldestMessage |-> 0, newestMessage |-> 0]
Ret(op, value, n) ==
    [op |-> op, arg |-> 0, value |-> value, n |-> n, status |-> NoStatus]

\* Date().timeIntervalSince1970 read by queueMessage for the id-th call: the
\* clock advances with every call and is never 0.
EnqueuedAt(id) == id

\* null, as the host sees it: no timestamp, different from 0.
null == 0 - 1

\* A transfer the transport has not been asked for yet, and a transfer id
\* with which no event was sent.
NoTransfer == [state |-> "none", fraction |-> 0, cancels |-> 0]
NoEvents == [progress |-> 0, finished |-> 0, error |-> 0]


\* getQueueStatus: the snapshot it resolves with.
getQueueStatus ==
    [count |-> Len(messageQueue),
     isProcessing |-> isProcessingQueue,
     oldestMessage |-> IF messageQueue = <<>> THEN 0 ELSE messageQueue[1].queuedAt,
     newestMessage |-> IF messageQueue = <<>> THEN 0
                       ELSE messageQueue[Len(messageQueue)].queuedAt]

\* No watchStateUpdated event was sent yet.
NoStateEvents == [count |-> 0, queuedMessages |-> 0]

\* A stamp that leaves the old time in place.
StampKept(t) == t

\* lastWatchStateChange = Date().timeIntervalSince1970: a reading of the
\* clock, which differs from the reading before it.
Stamp(t) == (t + 1) % EventWrap

\* if hasListeners { sendEvent("watchStateUpdated", ["watchState":
\* getSessionState()]) }, the snapshot's queuedMessages being the count of
\* the queue q at that moment.
sendWatchStateUpdated(q) ==
    IF hasListeners
    THEN [count |-> (stateEvents.count + 1) % EventWrap,
          queuedMessages |-> Len(q)]
    ELSE stateEvents

\* A sendQueueUpdateEvent that sends nothing.
sendQueueUpdateEventDropped == queueEvents

\* sendQueueUpdateEvent: the event is sent only while there are listeners.
sendQueueUpdateEvent ==
    IF hasListeners THEN (queueEvents + 1) % EventWrap ELSE queueEvents

Init ==
    /\ activationState = "notActivated"
    /\ isReachable = FALSE
    /\ hasListeners = FALSE
    /\ messageQueue = <<>>
    /\ isProcessingQueue = FALSE
    /\ replyHandlers = {}
    /\ drain = [c \in Ctx |-> IdleDrain]
    /\ inflight = {}
    /\ deferred = 0
    /\ scheduled = 0
    /\ inbound = [j \in 1..MaxInbound |-> NoInbound]
    /\ nextId = 0
    /\ msgs = [k \in OutIds |-> NoMsg]
    /\ invoked = [h \in HandlerIds |-> 0]
    /\ ret = Ret("none", "", 0)
    /\ queueEvents = 0
    /\ outstanding = [t \in Transfers |-> NoTransfer]
    /\ fileTransfers = [id \in TransferIds |-> 0]
    /\ progressObservations = [id \in TransferIds |-> 0]
    /\ nextTransferId = 0
    /\ transferEvents = [id \in TransferIds |-> NoEvents]
    /\ mainQueue = <<>>
    /\ emitted = [id \in TransferIds |-> null]
    /\ lastWatchStateChange = 0
    /\ stateEvents = NoStateEvents

Idle(c) == drain[c].pc = "idle"
Available == activationState = "activated" /\ isReachable
ActiveDrains == {c \in Ctx : drain[c].pc # "idle"}
Tokens == deferred + scheduled + Cardinality(ActiveDrains)

\* ---------------------------------------------------- host-facing wrappers
\* A wrapper that derives the reason from the wrong substring.
JsCatchWrongReason(code, message) ==
    IF code = "QUEUED" \/ Includes(message, "not reachable")
                       \/ Includes(message, "not activated")
    THEN Resolved(TRUE, IF Includes(message, "not reachable")
                        THEN "session_not_activated" ELSE "watch_not_reachable")
    ELSE Rejected(code)

\* index.js sendMessage: the .catch on the native promise.
JsCatch(code, message) ==
    IF code = "QUEUED"
    THEN Resolved(TRUE, IF Includes(message, "not activated")
                        THEN "session_not_activated" ELSE "watch_not_reachable")
    ELSE IF Includes(message, "not reachable") \/ Includes(message, "not activated")
    THEN Resolved(TRUE, IF Includes(message, "not activated")
                        THEN "session_not_activated" ELSE "watch_not_reachable")
    ELSE Rejected(code)

\* The TypeScript sendMessage: the .catch on sendMessageWithReply rejects.
TsCatch(code, message) == Rejected(code)

\* The TypeScript wrapper's own store of reply handlers, one entry per
\* message: "none" (no entry was made), "stored", "deleted", or "invoked"
\* (called with the reply and removed).  sendMessage stores the caller's
\* handler under a fresh replyId; the index.js path hands its callback to
\* the native method and keeps nothing.
WrapperStores(api) == IF api = "ts" THEN "stored" ELSE "none"

\* The .catch of the wrapper's sendMessage: delete replyHandlers[replyId].
WrapperDeletes(handler) == IF handler = "stored" THEN "deleted" ELSE handler

\* The wrapper's listener on internal_messageReply: the stored handler is
\* called with the response and deleted.
MessageReplyListener(handler) ==
    IF handler = "stored" THEN "invoked" ELSE handler

WrapperCatch(api, code, message) ==
    IF api = "js" THEN JsCatch(code, message) ELSE TsCatch(code, message)

\* ------------------------------------------------------------ queueMessage
\* The entry queueMessage appends.  A message with neither a "type" nor a
\* "message" key is replaced by the generic wrapper, which carries neither
\* __queuedAt nor __hasReplyHandler; the timestamp is the call's number.
QueuedEntry(id, message, hasHandler) ==
    LET handlerId == IF hasHandler THEN id ELSE 0
        stored == IF hasHandler THEN {"__handlerId"} ELSE {}
    IN IF "type" \notin message /\ "message" \notin message
       THEN Entry(id, 0, "nil", handlerId,
                  [Wrapper(message) EXCEPT !.keys = @ \cup stored])
       ELSE Entry(id, EnqueuedAt(id),
                  IF hasHandler THEN "true" ELSE "false", handlerId,
                  Plain(message \cup {"__queuedAt", "__hasReplyHandler"}
                                \cup stored))

\* An enqueue that puts the new entry in front.
EnqueueAtHead(q, e) == <<e>> \o q

\* messageQueue.append(messageToQueue)
Enqueue(q, e) == Append(q, e)

\* A message sent at once carries no queue metadata; sendMessage stores the
\* reply handler under the message id, sendMessageWithReply stores none.
\* sendMessageWithReply takes __replyId out of the copy it sends.
DirectEntry(id, api, message) ==
    Entry(id, 0, "nil", IF api = "js" THEN id ELSE 0,
          Plain(IF api = "js" THEN message ELSE message \ {"__replyId"}))

\* The message as the native method receives it: the host's payload, to
\* which the TypeScript wrapper has added __replyId; sendMessageWithReply
\* sets the same key again before it queues.
Submitted(api, shape) ==
    (IF shape = "raw" THEN {"data"} ELSE {"type", "data"})
        \cup (IF api = "ts" THEN {"__replyId"} ELSE {})

\* messageCopy in the drain's loop: the entry without the three keys that
\* the loop removes.
messageCopy(entry) ==
    [entry.payload EXCEPT
        !.keys = @ \ {"__queuedAt", "__hasReplyHandler", "__handlerId"}]

Flight(kind, owner, live, entry) ==
    [kind |-> kind, owner |-> owner, live |-> live, entry |-> entry]

\* Only the activation guard, the reachability guard forgotten.
ShouldQueueActivationOnly == activationState # "activated"

\* The two guards of sendMessage / sendMessageWithReply that queue.
ShouldQueue == activationState # "activated" \/ ~isReachable

\* The text of the native reject("QUEUED", ...).
QueuedText ==
    IF activationState # "activated" THEN MsgNotActivatedQueued
    ELSE MsgNotReachableQueued

\* sendMessage reached through index.js (api "js", a reply handler is always
\* passed) and sendMessageWithReply reached through the TypeScript wrapper
\* (api "ts", queueMessage gets no reply handler).
SendMessage(api, shape) ==
    /\ Idle("method")
    /\ LET id == nextId + 1
           hasHandler == api = "js"
       IN /\ nextId' = id
          /\ replyHandlers' = IF hasHandler THEN replyHandlers \cup {id}
                              ELSE replyHandlers
          /\ IF ShouldQueue
             THEN /\ messageQueue' =
                        Enqueue(messageQueue,
                                QueuedEntry(id, Submitted(api, shape), hasHandler))
                  /\ msgs' = [msgs EXCEPT ![id] =
                        [api |-> api, message |-> Submitted(api, shape),
                         wrapperHandler |-> WrapperDeletes(WrapperStores(api)),
                         enqueued |-> TRUE, cleared |-> FALSE, fate |-> "queued",
                         handed |-> 0,
                         result |-> WrapperCatch(api, "QUEUED", QueuedText)]]
                  /\ queueEvents' = sendQueueUpdateEvent
                  /\ UNCHANGED inflight
             ELSE /\ inflight' = inflight \cup
                        {Flight(api, "none", FALSE,
                                DirectEntry(id, api, Submitted(api, shape)))}
                  /\ msgs' = [msgs EXCEPT ![id] =
                        [api |-> api, message |-> Submitted(api, shape),
                         wrapperHandler |-> WrapperStores(api),
                         enqueued |-> FALSE, cleared |-> FALSE, fate |-> "sent",
                         handed |-> 1, result |-> Pending]]
                  /\ UNCHANGED <<messageQueue, queueEvents>>
    /\ UNCHANGED transferVars
    /\ UNCHANGED stateVars
    /\ UNCHANGED <<sessionVars, hasListeners, isProcessingQueue, drain,
                   taskVars, inbound, invoked, ret>>

\* ------------------------------------------------- processMessageQueueInternal
\* A drain that tests the flag only.
DrainGuardFlagOnly == ~isProcessingQueue

\* The two guards at the top of the drain.
DrainGuard == ~isProcessingQueue /\ activationState = "activated"

Entered(c, trigger) ==
    [drain EXCEPT ![c] = [IdleDrain EXCEPT !.pc = "entered", !.trigger = trigger]]

\* isProcessingQueue = true; messagesToProcess = Array(messageQueue.prefix(batchSize))
DrainCopy(c) ==
    /\ drain[c].pc = "entered"
    /\ isProcessingQueue' = TRUE
    /\ drain' = [drain EXCEPT ![c].pc = "copied",
                              ![c].batch = Prefix(messageQueue, batchSize)]
    /\ UNCHANGED transferVars
    /\ UNCHANGED stateVars
    /\ UNCHANGED <<sessionVars, hasListeners, messageQueue, replyHandlers,
                   inflight, taskVars, inbound, nextId, queueEvents, msgs, invoked, ret>>

\* messageQueue = Array(messageQueue.dropFirst(min(batchSize, messageQueue.count)))
\* and then the loop: session.sendMessage for every message of the batch.
DrainSend(c) ==
    /\ drain[c].pc = "copied"
    /\ messageQueue' = DropFirst(messageQueue, batchSize)
    /\ drain' = [drain EXCEPT ![c].pc = "sent", ![c].i = Len(drain[c].batch)]
    /\ inflight' = inflight \cup
          {Flight("queued", c, TRUE, drain[c].batch[n]) :
             n \in 1..Len(drain[c].batch)}
    /\ msgs' = [k \in OutIds |->
                  IF \E n \in 1..Len(drain[c].batch) : drain[c].batch[n].id = k
                  THEN [msgs[k] EXCEPT !.fate = "sent", !.handed = Bump(@)]
                  ELSE msgs[k]]
    /\ UNCHANGED transferVars
    /\ UNCHANGED stateVars
    /\ UNCHANGED <<sessionVars, hasListeners, isProcessingQueue, replyHandlers,
                   taskVars, inbound, nextId, queueEvents, invoked, ret>>

\* A count of the sends that have not failed so far.
ReturnedLessFailures(trigger, processed) ==
    IF trigger = "forced"
    THEN Ret("processMessageQueue", "resolved",
             processed - Len(drain["method"].remainingQueue))
    ELSE IF trigger = "check" THEN Ret("checkWatchConnectivityStatus", "resolved", 0)
    ELSE ret

\* What the caller of the drain does with the returned count.
Returned(trigger, processed) ==
    IF trigger = "forced" THEN Ret("processMessageQueue", "resolved", processed)
    ELSE IF trigger = "check" THEN Ret("checkWatchConnectivityStatus", "resolved", 0)
    ELSE ret

\* messageQueue = remainingQueue + messageQueue, when remainingQueue is not empty
Requeue(remainingQueue, q) ==
    IF remainingQueue # <<>> THEN remainingQueue \o q ELSE q

\* A test that ignores reachability.
FollowUpUnlessEmpty(q) == q # <<>>

\* The test that schedules another pass after one second.
FollowUp(q) == q # <<>> /\ isReachable

\* A pass that keeps the flag while it has messages to retry.
FlagHeldForRetry(remainingQueue) == remainingQueue # <<>>

\* isProcessingQueue = false, the one statement between the loop and the
\* return that touches the flag.
FlagAfterPass(remainingQueue) == FALSE

\* After the loop: requeue, clear the flag, schedule a follow-up, return.
DrainFinish(c) ==
    /\ drain[c].pc = "sent"
    /\ LET d == drain[c]
           q == Requeue(d.remainingQueue, messageQueue)
       IN /\ messageQueue' = q
          /\ isProcessingQueue' = FlagAfterPass(d.remainingQueue)
          /\ scheduled' = IF FollowUp(q) THEN scheduled + 1 ELSE scheduled
          /\ queueEvents' = sendQueueUpdateEvent
          /\ ret' = Returned(d.trigger, d.i)
          /\ stateEvents' = IF d.trigger = "activation"
                            THEN sendWatchStateUpdated(q) ELSE stateEvents
          /\ msgs' = [k \in OutIds |->
                        IF \E n \in 1..Len(d.remainingQueue) :
                              d.remainingQueue[n].id = k
                        THEN [msgs[k] EXCEPT !.handed = 0] ELSE msgs[k]]
    /\ drain' = [drain EXCEPT ![c] = IdleDrain]
    /\ inflight' = {IF f.owner = c THEN [f EXCEPT !.live = FALSE] ELSE f :
                    f \in inflight}
    /\ UNCHANGED transferVars
    /\ UNCHANGED lastWatchStateChange
    /\ UNCHANGED <<sessionVars, hasListeners, replyHandlers, deferred,
                   inbound, nextId, invoked>>

\* ------------------------------------------------------- the drain's callers
\* processMessageQueue: the host forces a pass on the method queue.
ProcessMessageQueue ==
    /\ Idle("method")
    /\ IF DrainGuard
       THEN /\ drain' = Entered("method", "forced")
            /\ UNCHANGED ret
       ELSE /\ ret' = Ret("processMessageQueue", "resolved", 0)
            /\ UNCHANGED drain
    /\ UNCHANGED transferVars
    /\ UNCHANGED stateVars
    /\ UNCHANGED <<sessionVars, hasListeners, queueVars, replyHandlers,
                   inflight, taskVars, inbound, nextId, queueEvents, msgs, invoked>>

\* checkWatchConnectivityStatus: a pass when reachable with a non-empty queue.
CheckWatchConnectivityStatus ==
    /\ Idle("method")
    /\ IF isReachable /\ messageQueue # <<>> /\ DrainGuard
       THEN /\ drain' = Entered("method", "check")
            /\ UNCHANGED ret
       ELSE /\ ret' = Ret("checkWatchConnectivityStatus", "resolved", 0)
            /\ UNCHANGED drain
    /\ UNCHANGED transferVars
    /\ UNCHANGED stateVars
    /\ UNCHANGED <<sessionVars, hasListeners, queueVars, replyHandlers,
                   inflight, taskVars, inbound, nextId, queueEvents, msgs, invoked>>

\* session(_:activationDidCompleteWith:error:) on the delegate queue; the
\* pass runs inside the callback, and watchStateUpdated is sent after it,
\* by DrainFinish when a pass was entered.
ActivationDidComplete(error) ==
    /\ Idle("delegate")
    /\ lastWatchStateChange' = Stamp(lastWatchStateChange)
    /\ drain' = IF /\ ~error
                    /\ activationState = "activated" /\ isReachable
                    /\ messageQueue # <<>>
                    /\ DrainGuard
                 THEN Entered("delegate", "activation") ELSE drain
    /\ stateEvents' = IF drain' = drain THEN sendWatchStateUpdated(messageQueue)
                      ELSE stateEvents
    /\ UNCHANGED transferVars
    /\ UNCHANGED <<sessionVars, hasListeners, queueVars, replyHandlers,
                   inflight, taskVars, inbound, nextId, queueEvents, msgs, invoked, ret>>

\* sessionWatchStateDidChange: the pass is deferred to the main queue.
SessionWatchStateDidChange ==
    /\ Idle("delegate")
    /\ lastWatchStateChange' = Stamp(lastWatchStateChange)
    /\ deferred' = IF isReachable /\ messageQueue # <<>> THEN deferred + 1
                    ELSE deferred
    /\ stateEvents' = sendWatchStateUpdated(messageQueue)
    /\ UNCHANGED transferVars
    /\ UNCHANGED <<sessionVars, hasListeners, queueVars, replyHandlers, drain,
                   inflight, scheduled, inbound, nextId, queueEvents, msgs, invoked, ret>>

\* The main queue runs the block deferred by sessionWatchStateDidChange.
RunDeferred ==
    /\ Idle("main")
    /\ deferred > 0
    /\ deferred' = deferred - 1
    /\ drain' = IF DrainGuard THEN Entered("main", "deferred") ELSE drain
    /\ UNCHANGED transferVars
    /\ UNCHANGED stateVars
    /\ UNCHANGED <<sessionVars, hasListeners, queueVars, replyHandlers,
                   inflight, scheduled, inbound, nextId, queueEvents, msgs, invoked, ret>>

\* The main queue runs the follow-up pass scheduled by asyncAfter.
RunScheduled ==
    /\ Idle("main")
    /\ scheduled > 0
    /\ scheduled' = scheduled - 1
    /\ drain' = IF DrainGuard THEN Entered("main", "scheduled") ELSE drain
    /\ UNCHANGED transferVars
    /\ UNCHANGED stateVars
    /\ UNCHANGED <<sessionVars, hasListeners, queueVars, replyHandlers,
                   inflight, deferred, inbound, nextId, queueEvents, msgs, invoked, ret>>

\* ---------------------------------------------------- transport callbacks
\* The code's test for an error that requeues.
Requeues(err) == Includes(err, "not reachable") \/ Includes(err, "session inactive")

\* A closure that holds the handler itself instead of looking it up.
HitAlways(h) == h # 0

\* if let handler = self.replyHandlers[handlerId]
Hit(h) == h # 0 /\ h \in replyHandlers

\* Whether the reply closure of a send posts internal_messageReply: only
\* the closure of sendMessageWithReply does, and only with listeners.
ReplyEventPosted(kind, listening) == kind = "ts" /\ listening

\* replyHandler closure of a send: the stored handler, if still there, is
\* invoked and removed; sendMessageWithReply resolves the promise instead.
ReplyCallback(f) ==
    /\ f \in inflight
    /\ inflight' = inflight \ {f}
    /\ LET h == f.entry.handlerId
           hit == Hit(h)
       IN /\ invoked' = IF hit THEN [invoked EXCEPT ![h] = Bump(@)] ELSE invoked
          /\ replyHandlers' = IF hit THEN replyHandlers \ {h} ELSE replyHandlers
    /\ msgs' = [msgs EXCEPT ![f.entry.id].fate = "delivered",
                            ![f.entry.id].wrapperHandler =
                                IF ReplyEventPosted(f.kind, hasListeners)
                                THEN MessageReplyListener(@) ELSE @,
                            ![f.entry.id].result =
                                IF f.kind = "ts" THEN Resolved(FALSE, "") ELSE @]
    /\ UNCHANGED transferVars
    /\ UNCHANGED stateVars
    /\ UNCHANGED <<sessionVars, hasListeners, queueVars, drain, taskVars,
                   inbound, nextId, queueEvents, ret>>

\* errorHandler closure of a send.  A queued message's closure appends to the
\* remainingQueue of the pass that sent it; once that pass has returned the
\* list is read by nobody.
ErrorCallback(f, err) ==
    /\ f \in inflight
    /\ inflight' = inflight \ {f}
    /\ IF f.kind = "queued"
       THEN /\ drain' = IF Requeues(err) /\ f.live
                        THEN [drain EXCEPT ![f.owner].remainingQueue =
                                               Append(@, f.entry)]
                        ELSE drain
            /\ msgs' = [msgs EXCEPT ![f.entry.id].fate =
                           IF Requeues(err) THEN "failedTransient"
                           ELSE "failedPermanent"]
            /\ UNCHANGED replyHandlers
       ELSE /\ replyHandlers' = IF f.kind = "js"
                                THEN replyHandlers \ {f.entry.handlerId}
                                ELSE replyHandlers
            /\ msgs' = [msgs EXCEPT ![f.entry.id].fate = "failed",
                           ![f.entry.id].wrapperHandler = WrapperDeletes(@),
                           ![f.entry.id].result =
                               WrapperCatch(f.kind, "ERR_WATCH_MESSAGE_FAILED", err)]
            /\ UNCHANGED drain
    /\ UNCHANGED transferVars
    /\ UNCHANGED stateVars
    /\ UNCHANGED <<sessionVars, hasListeners, queueVars, taskVars, inbound,
                   nextId, queueEvents, invoked, ret>>

\* ------------------------------------------------------------ other methods
\* clearMessageQueue
ClearMessageQueue ==
    /\ Idle("method")
    /\ replyHandlers' = replyHandlers \
          {messageQueue[k].handlerId : k \in 1..Len(messageQueue)}
    /\ messageQueue' = <<>>
    /\ msgs' = [k \in OutIds |->
                  IF \E n \in 1..Len(messageQueue) : messageQueue[n].id = k
                  THEN [msgs[k] EXCEPT !.fate = "cleared", !.cleared = TRUE]
                  ELSE msgs[k]]
    /\ queueEvents' = sendQueueUpdateEvent
    /\ ret' = Ret("clearMessageQueue", "true", 0)
    /\ UNCHANGED transferVars
    /\ UNCHANGED stateVars
    /\ UNCHANGED <<sessionVars, hasListeners, isProcessingQueue, drain,
                   inflight, taskVars, inbound, nextId, invoked>>

\* session(_:didReceiveMessage:replyHandler:): the handler is stored under a
\* fresh id and the event is posted to the main queue.
DidReceiveMessage(type) ==
    /\ Idle("delegate")
    /\ \E j \in 1..MaxInbound :
         /\ inbound[j].state = "none"
         /\ \A k \in 1..(j - 1) : inbound[k].state # "none"
         /\ inbound' = [inbound EXCEPT ![j] = [type |-> type, state |-> "posted"]]
         /\ replyHandlers' = replyHandlers \cup {0 - j}
    /\ UNCHANGED transferVars
    /\ UNCHANGED stateVars
    /\ UNCHANGED <<sessionVars, hasListeners, queueVars, drain, inflight,
                   taskVars, nextId, queueEvents, msgs, invoked, ret>>

\* What becomes of a messageReceived event handed to sendEvent: delivered
\* when a listener is registered; otherwise the module hands it over all the
\* same, and the emitter either drops it ("unseen") or, as the module's
\* comment expects, keeps it until a listener is added ("held").
SendEventOutcomes(listening) ==
    IF listening THEN {"seen"} ELSE {"unseen", "held"}

\* The posted block: the event is sent whether or not a listener is
\* registered; with no listener a "test" or "requestData" message is
\* acknowledged at once and its handler removed.
EmitMessageReceived(j) ==
    /\ Idle("main")
    /\ inbound[j].state = "posted"
    /\ \E outcome \in SendEventOutcomes(hasListeners) :
         inbound' = [inbound EXCEPT ![j].state = outcome]
    /\ IF ~hasListeners /\ inbound[j].type = "test"
       THEN /\ invoked' = [invoked EXCEPT ![0 - j] = Bump(@)]
            /\ replyHandlers' = replyHandlers \ {0 - j}
       ELSE UNCHANGED <<invoked, replyHandlers>>
    /\ UNCHANGED transferVars
    /\ UNCHANGED stateVars
    /\ UNCHANGED <<sessionVars, hasListeners, queueVars, drain, inflight,
                   taskVars, nextId, queueEvents, msgs, ret>>

\* The emitter hands a kept messageReceived event to the listener that was
\* added after it was sent.
EventSystemDelivers(j) ==
    /\ Idle("main")
    /\ hasListeners
    /\ inbound[j].state = "held"
    /\ inbound' = [inbound EXCEPT ![j].state = "seen"]
    /\ UNCHANGED transferVars
    /\ UNCHANGED stateVars
    /\ UNCHANGED <<sessionVars, hasListeners, queueVars, replyHandlers, drain,
                   inflight, taskVars, nextId, queueEvents, msgs, invoked, ret>>

\* The identifiers the host can pass to replyToMessage: those it received
\* with a messageReceived event, and one that was never issued.
KnownIds ==
    {UnknownId} \cup {0 - j : j \in {k \in 1..MaxInbound : inbound[k].state = "seen"}}

\* A replyToMessage that leaves the entry in the map.
RemoveHandlerKeepsEntry(h) == replyHandlers

\* replyHandlers.removeValue(forKey: handlerId)
RemoveHandler(h) == replyHandlers \ {h}

\* getQueueStatus as a host call: it resolves with the snapshot.
GetQueueStatus ==
    /\ Idle("method")
    /\ ret' = [Ret("getQueueStatus", "resolved", 0) EXCEPT !.status = getQueueStatus]
    /\ UNCHANGED transferVars
    /\ UNCHANGED stateVars
    /\ UNCHANGED <<sessionVars, hasListeners, queueVars, replyHandlers, drain,
                   inflight, taskVars, inbound, nextId, queueEvents, msgs,
                   invoked>>

\* replyToMessage
ReplyToMessage(h) ==
    /\ Idle("method")
    /\ h \in KnownIds
    /\ IF h \in replyHandlers
       THEN /\ invoked' = [invoked EXCEPT ![h] = Bump(@)]
            /\ replyHandlers' = RemoveHandler(h)
            /\ ret' = [Ret("replyToMessage", "true", 0) EXCEPT !.arg = h]
       ELSE /\ ret' = [Ret("replyToMessage", "ERR_INVALID_HANDLER", 0)
                          EXCEPT !.arg = h]
            /\ UNCHANGED <<invoked, replyHandlers>>
    /\ UNCHANGED transferVars
    /\ UNCHANGED stateVars
    /\ UNCHANGED <<sessionVars, hasListeners, queueVars, drain, inflight,
                   taskVars, inbound, nextId, queueEvents, msgs>>

\* startObserving / stopObserving
StartObserving ==
    /\ hasListeners' = TRUE
    /\ UNCHANGED transferVars
    /\ UNCHANGED stateVars
    /\ UNCHANGED <<sessionVars, queueVars, replyHandlers, drain, inflight,
                   taskVars, inbound, nextId, queueEvents, msgs, invoked, ret>>

StopObserving ==
    /\ hasListeners' = FALSE
    /\ UNCHANGED transferVars
    /\ UNCHANGED stateVars
    /\ UNCHANGED <<sessionVars, queueVars, replyHandlers, drain, inflight,
                   taskVars, inbound, nextId, queueEvents, msgs, invoked, ret>>

\* ------------------------------------------------------------- the session
\* WCSession changes its activation state or its reachability.
SessionChanges(state, reachable) ==
    /\ activationState' = state
    /\ isReachable' = reachable
    /\ UNCHANGED transferVars
    /\ UNCHANGED stateVars
    /\ UNCHANGED <<hasListeners, queueVars, replyHandlers, drain, inflight,
                   taskVars, inbound, nextId, queueEvents, msgs, invoked, ret>>

\* --------------------------------------------------- the transport's signals
\* The session changes and WCSession at once calls the delegate method that
\* goes with the change; the method sees the new state.
\* Activation completes: session(_:activationDidCompleteWith:error:) with no
\* error and state .activated.
SignalActivation(reachable) ==
    /\ Idle("delegate")
    /\ activationState' = "activated"
    /\ isReachable' = reachable
    /\ lastWatchStateChange' = Stamp(lastWatchStateChange)
    /\ drain' = IF reachable /\ messageQueue # <<>> /\ ~isProcessingQueue
                 THEN Entered("delegate", "activation") ELSE drain
    /\ stateEvents' = IF drain' = drain THEN sendWatchStateUpdated(messageQueue)
                      ELSE stateEvents
    /\ UNCHANGED transferVars
    /\ UNCHANGED <<hasListeners, queueVars, replyHandlers, inflight, taskVars,
                   inbound, nextId, queueEvents, msgs, invoked, ret>>

\* sessionDidBecomeInactive / sessionDidDeactivate: a timestamp and a
\* watchStateUpdated event, nothing for the queue.
SignalInactive(state, reachable) ==
    /\ state \in {"inactive", "notActivated"}
    /\ activationState' = state
    /\ isReachable' = reachable
    /\ lastWatchStateChange' = Stamp(lastWatchStateChange)
    /\ stateEvents' = sendWatchStateUpdated(messageQueue)
    /\ UNCHANGED transferVars
    /\ UNCHANGED <<hasListeners, queueVars, replyHandlers, drain, inflight,
                   taskVars, inbound, nextId, queueEvents, msgs, invoked, ret>>

\* sessionWatchStateDidChange after a change of the watch's state.
SignalWatchState(reachable) ==
    /\ Idle("delegate")
    /\ isReachable' = reachable
    /\ lastWatchStateChange' = Stamp(lastWatchStateChange)
    /\ deferred' = IF reachable /\ messageQueue # <<>> THEN deferred + 1
                    ELSE deferred
    /\ stateEvents' = sendWatchStateUpdated(messageQueue)
    /\ UNCHANGED transferVars
    /\ UNCHANGED <<activationState, hasListeners, queueVars, replyHandlers,
                   drain, inflight, scheduled, inbound, nextId, queueEvents,
                   msgs, invoked, ret>>

\* Reachability changes: WCSession would call sessionReachabilityDidChange,
\* which the module does not implement, so no code of the module runs.
SignalReachability(reachable) ==
    /\ reachable # isReachable
    /\ SessionChanges(activationState, reachable)

\* ------------------------------------------------------ the transfer registry
\* UUID().uuidString: the next identifier, never one that was generated before.
NewTransferId(k) == nextTransferId + k

\* session.outstandingFileTransfers, and the transfers not yet asked for.
Outstanding == {t \in Transfers : outstanding[t].state = "outstanding"}
Unstarted == {t \in Transfers : outstanding[t].state = "none"}

\* Int(progress.fractionCompleted * 100), the fraction being in thousandths.
Percentage(fraction) == fraction \div 10

\* The test the observation makes before it sends fileTransferProgress.
Throttle(percentage) == percentage % 10 = 0 \/ percentage = 100

\* sendEvent for a transfer, made only while there are listeners; the block
\* is posted to the main queue, which runs blocks in the order they are
\* posted, and the event is counted where it is posted.
SendProgress(ev) ==
    IF hasListeners THEN [ev EXCEPT !.progress = (@ + 1) % EventWrap] ELSE ev
SendFinished(ev) ==
    IF hasListeners THEN [ev EXCEPT !.finished = Bump(@)] ELSE ev
SendError(ev) ==
    IF hasListeners THEN [ev EXCEPT !.error = Bump(@)] ELSE ev

\* DispatchQueue.main.async { self.sendEvent(withName: name, ...) } for the
\* identifier id; the block of a progress event reads the fraction of the
\* transfer when it runs.
Block(name, id, transfer) == [name |-> name, id |-> id, transfer |-> transfer]

\* The blocks the closures of the observations in S post, in the order in
\* which the observations were added.
RECURSIVE ProgressBlocks(_, _)
ProgressBlocks(S, transfer) ==
    IF S = {} THEN <<>>
    ELSE LET id == CHOOSE i \in S : \A j \in S : i <= j
         IN <<Block("fileTransferProgress", id, transfer)>>
                \o ProgressBlocks(S \ {id}, transfer)

\* "progress": 1.0 in the body of fileTransferFinished.
CompletedProgress == 1000

\* A transferFile that does not look for the file.
FileMissingIgnored(fileExists) == FALSE

\* guard FileManager.default.fileExists(atPath:) else { reject }
FileMissing(fileExists) == ~fileExists

\* transferFile
TransferFile(fileExists) ==
    IF activationState # "activated"
    THEN /\ ret' = Ret("transferFile", "ERR_WATCH_SESSION_NOT_ACTIVATED", 0)
         /\ UNCHANGED transferVars
         /\ UNCHANGED <<sessionVars, hasListeners, queueSide>>
    ELSE IF FileMissing(fileExists)
    THEN /\ ret' = Ret("transferFile", "ERR_FILE_NOT_FOUND", 0)
         /\ UNCHANGED transferVars
         /\ UNCHANGED <<sessionVars, hasListeners, queueSide>>
    ELSE /\ Unstarted # {}
         /\ LET transfer == CHOOSE t \in Unstarted : \A u \in Unstarted : t <= u
                transferId == NewTransferId(1)
            IN /\ outstanding' =
                      [outstanding EXCEPT ![transfer].state = "outstanding"]
               /\ nextTransferId' = transferId
               /\ fileTransfers' = [fileTransfers EXCEPT ![transferId] = transfer]
               /\ progressObservations' =
                      [progressObservations EXCEPT ![transferId] = transfer]
               /\ ret' = [Ret("transferFile", "resolved", 0) EXCEPT
                              !.arg = transferId]
         /\ UNCHANGED <<sessionVars, hasListeners, queueSide, transferEvents,
                        mainVars>>

\* getFileTransfers: every outstanding transfer is stored and observed under
\* one more new identifier.
Rank(t) == Cardinality({u \in Outstanding : u <= t})
Adopted(id) ==
    IF \E t \in Outstanding : NewTransferId(Rank(t)) = id
    THEN CHOOSE t \in Outstanding : NewTransferId(Rank(t)) = id
    ELSE 0

GetFileTransfers ==
    IF activationState # "activated"
    THEN /\ ret' = Ret("getFileTransfers", "ERR_WATCH_SESSION_NOT_ACTIVATED", 0)
         /\ UNCHANGED transferVars
         /\ UNCHANGED <<sessionVars, hasListeners, queueSide>>
    ELSE /\ fileTransfers' =
                [id \in TransferIds |->
                    IF Adopted(id) # 0 THEN Adopted(id) ELSE fileTransfers[id]]
         /\ progressObservations' =
                [id \in TransferIds |->
                    IF Adopted(id) # 0 THEN Adopted(id)
                    ELSE progressObservations[id]]
         /\ nextTransferId' = nextTransferId + Cardinality(Outstanding)
         /\ ret' = Ret("getFileTransfers", "resolved", Cardinality(Outstanding))
         /\ UNCHANGED <<sessionVars, hasListeners, queueSide, outstanding,
                        transferEvents, mainVars>>

\* A lookup in the dictionary of observations instead of the registry.
LookupObserved(transferId) ==
    IF transferId \in TransferIds THEN progressObservations[transferId] ELSE 0

\* fileTransfers[transferId], 0 standing for nil; an identifier the module
\* never generated has no entry.
Lookup(transferId) ==
    IF transferId \in TransferIds THEN fileTransfers[transferId] ELSE 0

\* cancelFileTransfer
CancelFileTransfer(transferId) ==
    LET transfer == Lookup(transferId)
    IN /\ IF transfer = 0
          THEN /\ ret' = [Ret("cancelFileTransfer", "ERR_TRANSFER_NOT_FOUND", 0)
                              EXCEPT !.arg = transferId]
               /\ UNCHANGED <<outstanding, fileTransfers>>
          ELSE /\ outstanding' =
                      [outstanding EXCEPT
                          ![transfer].cancels = Bump(@),
                          ![transfer].state =
                              IF @ = "outstanding" THEN "cancelled" ELSE @]
               /\ fileTransfers' = [fileTransfers EXCEPT ![transferId] = 0]
               /\ ret' = [Ret("cancelFileTransfer", "true", 0)
                              EXCEPT !.arg = transferId]
       /\ UNCHANGED <<sessionVars, hasListeners, queueSide,
                      progressObservations, nextTransferId, transferEvents,
                      mainVars>>

\* The transport advances a transfer's fractionCompleted; every observation
\* of that transfer that is still stored runs its closure.
ProgressSample(transfer, fraction) ==
    /\ outstanding[transfer].state = "outstanding"
    /\ fraction > outstanding[transfer].fraction
    /\ outstanding' = [outstanding EXCEPT ![transfer].fraction = fraction]
    /\ transferEvents' =
           [id \in TransferIds |->
               IF /\ progressObservations[id] = transfer
                  /\ Throttle(Percentage(fraction))
               THEN SendProgress(transferEvents[id])
               ELSE transferEvents[id]]
    /\ mainQueue' =
           IF hasListeners /\ Throttle(Percentage(fraction))
           THEN mainQueue \o
                ProgressBlocks({id \in TransferIds :
                                   progressObservations[id] = transfer},
                               transfer)
           ELSE mainQueue
    /\ UNCHANGED <<sessionVars, hasListeners, queueSide, fileTransfers,
                   progressObservations, nextTransferId, ret, emitted>>

\* The identifiers fileTransfers.first(where:) can return for a transfer: a
\* dictionary has no defined order, so any key that holds the transfer.
KeysOf(transfer) == {id \in TransferIds : fileTransfers[id] = transfer}

\* session(_:didFinish:error:), which the transport calls for a transfer
\* that ended, also for one whose cancel() came while it was ending.
DidFinishFileTransfer(transfer, error) ==
    /\ outstanding[transfer].state \in {"outstanding", "cancelled"}
    /\ \E transferId \in IF KeysOf(transfer) # {} THEN KeysOf(transfer)
                         ELSE {NewTransferId(1)} :
          /\ nextTransferId' = IF KeysOf(transfer) # {} THEN nextTransferId
                               ELSE transferId
          /\ transferEvents' =
                 [transferEvents EXCEPT
                     ![transferId] = IF error THEN SendError(@)
                                     ELSE SendFinished(@)]
          /\ fileTransfers' = [fileTransfers EXCEPT ![transferId] = 0]
          /\ progressObservations' =
                 [progressObservations EXCEPT ![transferId] = 0]
          /\ mainQueue' =
                 IF hasListeners
                 THEN Append(mainQueue,
                             Block(IF error THEN "fileTransferError"
                                   ELSE "fileTransferFinished",
                                   transferId, transfer))
                 ELSE mainQueue
    /\ outstanding' = [outstanding EXCEPT ![transfer].state = "finished"]
    /\ UNCHANGED <<sessionVars, hasListeners, queueSide, ret, emitted>>

\* An event that carries what is left of the transfer instead of what is
\* done.
CarriedRemaining(block) ==
    IF block.name = "fileTransferProgress"
    THEN CompletedProgress - outstanding[block.transfer].fraction
    ELSE IF block.name = "fileTransferFinished" THEN CompletedProgress
    ELSE null

\* The progress value the event of a block carries when the block runs;
\* fileTransferError carries none.
Carried(block) ==
    IF block.name = "fileTransferProgress"
    THEN outstanding[block.transfer].fraction
    ELSE IF block.name = "fileTransferFinished" THEN CompletedProgress
    ELSE null

\* The main queue runs the block at its head: sendEvent.
RunMain ==
    /\ mainQueue # <<>>
    /\ LET block == Head(mainQueue)
       IN emitted' =
              IF Carried(block) = null THEN emitted
              ELSE [emitted EXCEPT ![block.id] = Carried(block)]
    /\ mainQueue' = Tail(mainQueue)
    /\ UNCHANGED <<sessionVars, hasListeners, queueSide, outstanding,
                   fileTransfers, progressObservations, nextTransferId,
                   transferEvents, ret>>

\* ------------------------------------------------------- the specifications
Callbacks ==
    \/ \E f \in inflight : ReplyCallback(f)
    \/ \E f \in inflight, err \in TransportErrors : ErrorCallback(f, err)

Passes(C) ==
    \/ \E c \in C : DrainCopy(c)
    \/ \E c \in C : DrainSend(c)
    \/ \E c \in C : DrainFinish(c)

\* The method queue, the follow-up passes on the main queue and the
\* transport's callbacks.
Next ==
    \/ \E api \in Apis : nextId < MaxMsgs /\ SendMessage(api, "typed")
    \/ Tokens < MaxTasks /\ ProcessMessageQueue
    \/ Tokens < MaxTasks /\ CheckWatchConnectivityStatus
    \/ ClearMessageQueue
    \/ RunScheduled
    \/ Passes({"method", "main"})
    \/ Callbacks
    \/ \E state \in ActivationStates, reachable \in BOOLEAN :
          SessionChanges(state, reachable)

Spec == Init /\ [][Next]_vars

\* The reply correlator: inbound messages that expect a reply, the host's
\* replies, listeners coming and going, and direct sends whose handlers
\* share the map.
NextReply ==
    \/ \E type \in {"test", "data"} : DidReceiveMessage(type)
    \/ \E j \in 1..MaxInbound : EmitMessageReceived(j)
    \/ \E j \in 1..MaxInbound : EventSystemDelivers(j)
    \/ \E h \in KnownIds : ReplyToMessage(h)
    \/ StartObserving
    \/ StopObserving
    \/ nextId < MaxReplyMsgs /\ SendMessage("js", "typed")
    \/ Callbacks
    \/ \E state \in ActivationStates, reachable \in BOOLEAN :
          SessionChanges(state, reachable)
SpecReply == Init /\ [][NextReply]_vars

\* The watch answers the oldest send that is still unanswered.
OldestReply ==
    \E f \in inflight :
        /\ \A g \in inflight : f.entry.id <= g.entry.id
        /\ ReplyCallback(f)

\* Batching: up to MaxQueued messages enqueued while the watch is away, then
\* forced passes and their follow-ups, every send answered by the watch in
\* the order of the sends.
NextBatch ==
    \/ nextId < MaxQueued /\ ~Available /\ SendMessage("js", "typed")
    \/ Tokens < MaxTasks /\ ProcessMessageQueue
    \/ RunScheduled
    \/ Passes({"method", "main"})
    \/ OldestReply
    \/ \E reachable \in BOOLEAN : SessionChanges("activated", reachable)
SpecBatch == Init /\ [][NextBatch]_vars

\* Delivery: messages enqueued while the watch is away; once the session is
\* Activated and reachable it stays so, nothing more is enqueued and every
\* send is answered.  A pass that has started runs to its end and a block
\* given to the main queue is run.
NextLive ==
    \/ nextId < MaxLive /\ ~Available /\ SendMessage("js", "typed")
    \/ Tokens < MaxLiveTasks /\ ProcessMessageQueue
    \/ RunScheduled
    \/ Passes({"method", "main"})
    \/ OldestReply
    \/ \E state \in ActivationStates, reachable \in BOOLEAN :
          ~Available /\ SessionChanges(state, reachable)
SpecLive ==
    /\ Init /\ [][NextLive]_vars
    /\ WF_vars(Passes({"method", "main"}))
    /\ WF_vars(RunScheduled)

\* Concurrency: every trigger of a pass, each in the execution context the
\* code gives it, with the steps of the passes interleaved.  Reachability
\* changes between exchanges, while no send awaits its callback.
NextRace ==
    \/ nextId < MaxRaceMsgs /\ SendMessage("js", "typed")
    \/ Tokens < MaxRaceTasks /\ ProcessMessageQueue
    \/ Tokens < MaxRaceTasks /\ CheckWatchConnectivityStatus
    \/ \E error \in BOOLEAN : Tokens < MaxRaceTasks /\ ActivationDidComplete(error)
    \/ Tokens < MaxRaceTasks /\ SessionWatchStateDidChange
    \/ RunDeferred
    \/ RunScheduled
    \/ Passes(Ctx)
    \/ OldestReply
    \/ \E f \in inflight : ErrorCallback(f, ErrNotReachable)
    \/ \E reachable \in BOOLEAN :
          inflight = {} /\ SessionChanges("activated", reachable)
SpecRace == Init /\ [][NextRace]_vars

\* Every way a stored handler is reached: inbound messages and the host's
\* replies, listeners coming and going, a send with a handler, forced
\* passes over the queue and their follow-ups, and the transport's answers.
NextHandlers ==
    \/ \E type \in {"test", "data"} :
          inbound[MaxHandlerInbound].state = "none" /\ DidReceiveMessage(type)
    \/ \E j \in 1..MaxInbound : EmitMessageReceived(j)
    \/ \E j \in 1..MaxInbound : EventSystemDelivers(j)
    \/ \E h \in KnownIds : ReplyToMessage(h)
    \/ StartObserving
    \/ StopObserving
    \/ nextId < MaxReplyMsgs /\ SendMessage("js", "typed")
    \/ Tokens < MaxRaceTasks /\ ProcessMessageQueue
    \/ RunScheduled
    \/ Passes({"method", "main"})
    \/ OldestReply
    \/ \E f \in inflight : ErrorCallback(f, ErrNotReachable)
    \/ SessionChanges("activated", TRUE)
SpecHandlers == Init /\ [][NextHandlers]_vars

\* Counting: more messages than a batch holds are enqueued before the
\* session is activated, then forced passes and their follow-ups, with the
\* watch answering or the transport failing the oldest send.
NextCount ==
    \/ nextId < MaxCountQueued /\ activationState # "activated"
          /\ SendMessage("js", "typed")
    \/ Tokens < MaxTasks /\ ProcessMessageQueue
    \/ RunScheduled
    \/ Passes({"method", "main"})
    \/ OldestReply
    \/ \E f \in inflight, err \in {ErrNotReachable, ErrPayload} :
          /\ \A g \in inflight : f.entry.id <= g.entry.id
          /\ ErrorCallback(f, err)
    \/ SessionChanges("activated", TRUE)
SpecCount == Init /\ [][NextCount]_vars

\* Events: the queue operations with listeners coming and going.
NextEvents ==
    \/ \E shape \in Shapes : nextId < MaxEventMsgs /\ SendMessage("js", shape)
    \/ Tokens < MaxTasks /\ ProcessMessageQueue
    \/ ClearMessageQueue
    \/ RunScheduled
    \/ Passes({"method", "main"})
    \/ Callbacks
    \/ StartObserving
    \/ StopObserving
    \/ GetQueueStatus
    \/ \E reachable \in BOOLEAN : SessionChanges("activated", reachable)
SpecEvents == Init /\ [][NextEvents]_vars

\* Payloads: both send paths and both payload shapes, queued or sent at
\* once, and the forced passes that hand the queue over.  Every send is
\* answered and a batch holds the whole queue, so no pass leaves a
\* follow-up behind.
NextPayload ==
    \/ \E api \in Apis, shape \in Shapes :
          nextId < MaxPayloadMsgs /\ SendMessage(api, shape)
    \/ Tokens < MaxTasks /\ ProcessMessageQueue
    \/ Passes({"method"})
    \/ OldestReply
    \/ StartObserving
    \/ StopObserving
    \/ \E reachable \in BOOLEAN : SessionChanges("activated", reachable)
SpecPayload == Init /\ [][NextPayload]_vars

\* Signals: the transport's signals, each with the delegate method it calls,
\* and no forced pass by the host.
NextSignals ==
    \/ nextId < MaxSignalMsgs /\ SendMessage("js", "typed")
    \/ \E reachable \in BOOLEAN :
          Tokens < MaxSignalTasks /\ SignalActivation(reachable)
    \/ \E state \in ActivationStates, reachable \in BOOLEAN :
          SignalInactive(state, reachable)
    \/ \E reachable \in BOOLEAN :
          Tokens < MaxSignalTasks /\ SignalWatchState(reachable)
    \/ \E reachable \in BOOLEAN : SignalReachability(reachable)
    \/ RunDeferred
    \/ RunScheduled
    \/ Passes({"delegate", "main"})
    \/ Callbacks
    \/ StartObserving
    \/ StopObserving
SpecSignals == Init /\ [][NextSignals]_vars

\* Transfers: the host starts, lists and cancels transfers while the
\* transport reports progress and the end of each, with listeners coming
\* and going; the main queue is free and runs every block as soon as it is
\* posted.
NextTransfer ==
    \/ RunMain
    \/ /\ mainQueue = <<>>
       /\ \/ \E fileExists \in BOOLEAN :
                /\ nextTransferId < MaxTransferIds
                /\ TransferFile(fileExists)
          \/ /\ nextTransferId + Cardinality(Outstanding) <= MaxTransferIds
             /\ GetFileTransfers
          \/ \E transferId \in TransferIds \cup {UnknownId} :
                CancelFileTransfer(transferId)
          \/ \E transfer \in Transfers, fraction \in Fractions :
                ProgressSample(transfer, fraction)
          \/ \E transfer \in Transfers, error \in BOOLEAN :
                /\ KeysOf(transfer) = {} => nextTransferId < MaxTransferIds
                /\ DidFinishFileTransfer(transfer, error)
          \/ StartObserving
          \/ StopObserving
          \/ SessionChanges("activated", FALSE)
SpecTransfer == Init /\ [][NextTransfer]_vars

\* Progress: one transfer whose events wait on the main queue while the
\* transport goes on reporting.
Started == Transfers \ Unstarted
NextProgress ==
    \/ RunMain
    \/ \E fileExists \in BOOLEAN :
          /\ nextTransferId < MaxProgressIds
          /\ Cardinality(Started) < MaxProgressTransfers
          /\ TransferFile(fileExists)
    \/ /\ nextTransferId + Cardinality(Outstanding) <= MaxProgressIds
       /\ GetFileTransfers
    \/ \E transferId \in 1..MaxProgressIds : CancelFileTransfer(transferId)
    \/ \E transfer \in Transfers, fraction \in Fractions :
          /\ Len(mainQueue) < MaxPosted
          /\ ProgressSample(transfer, fraction)
    \/ \E transfer \in Transfers, error \in BOOLEAN :
          /\ Len(mainQueue) < MaxPosted
          /\ KeysOf(transfer) = {} => nextTransferId < MaxProgressIds
          /\ DidFinishFileTransfer(transfer, error)
    \/ StartObserving
    \/ StopObserving
    \/ SessionChanges("activated", FALSE)
SpecProgress == Init /\ [][NextProgress]_vars

\* ------------------------------------------------------------------ claims
InQueue(id) == \E n \in 1..Len(messageQueue) : messageQueue[n].id = id
InRetryList(id) ==
    \E c \in Ctx : \E n \in 1..Len(drain[c].remainingQueue) :
        drain[c].remainingQueue[n].id = id
Sent == {id \in OutIds : msgs[id].api # "none"}

\* C1: a drained message whose send failed with a transient error is back in
\* messageQueue once the failure has been reported (or is in the retry list
\* of the pass that is still running and will put it back), whenever the
\* error callback runs.
C1_NoLossOnTransientFailure ==
    \A id \in OutIds :
        msgs[id].fate = "failedTransient" => InQueue(id) \/ InRetryList(id)

\* C2: the messages of a batch that failed transiently are back at the head
\* of the queue in their original relative order: only transiently failed
\* messages that were enqueued earlier stand ahead of such a message.
C2_RetryAtHeadInOrder ==
    \A id \in OutIds :
        msgs[id].fate = "failedTransient" /\ ~InRetryList(id) =>
            \E k \in 1..Len(messageQueue) :
                /\ messageQueue[k].id = id
                /\ \A j \in 1..(k - 1) :
                      /\ msgs[messageQueue[j].id].fate = "failedTransient"
                      /\ messageQueue[j].id < id

\* C3: every sendMessage call made while the session is not Activated or the
\* watch is not reachable raises getQueueStatus().count by exactly one, so n
\* such calls with no drain and no clear in between raise it by n.
C3_EnqueueCounts ==
    [][(nextId' = nextId + 1 /\ ~Available) =>
           getQueueStatus'.count = getQueueStatus.count + 1]_vars

C3_Witness ==
    /\ nextId = 2
    /\ getQueueStatus.count = 2
    /\ msgs[1].enqueued /\ msgs[2].enqueued

\* C4: with the session Activated and reachable from then on, every send
\* answered and nothing more enqueued, a forced processMessageQueue call
\* leads to an empty queue (through follow-up passes when more than 5 were
\* queued) with every enqueued message handed to the transport exactly once;
\* no message is ever handed over a second time.  The host may force
\* another pass while a follow-up is pending or running.
C4_EventualDelivery ==
    /\ [](\A id \in Sent : msgs[id].handed <= 1)
    /\ (drain["method"].trigger = "forced" /\ Available) ~>
          (/\ getQueueStatus.count = 0
           /\ \A id \in Sent : msgs[id].enqueued => msgs[id].handed = 1)

\* C5: a pass hands at most the 5 oldest messages to the transport; with 12
\* queued, a pass whose 5 sends all succeed leaves exactly 7; and a pass
\* schedules a follow-up exactly when, at its end, the queue is non-empty
\* and the watch is reachable.
C5_BatchCap ==
    [][\A c \in Ctx :
          /\ (drain[c].pc = "copied" /\ drain'[c].pc = "sent") =>
                LET handedOver == {f.entry.id : f \in inflight' \ inflight}
                IN /\ Cardinality(handedOver) <= 5
                   /\ handedOver \subseteq
                         {drain[c].batch[n].id : n \in 1..Len(drain[c].batch)}
                   /\ drain'[c].i = Cardinality(handedOver)
                   /\ \A k \in handedOver : ~InQueue(k)'
                   /\ (Len(messageQueue) = 12 /\ Len(drain[c].batch) = 5) =>
                         Len(messageQueue') = 7
          /\ (drain[c].pc = "sent" /\ drain'[c].pc = "idle") =>
                /\ drain[c].remainingQueue = <<>> => messageQueue' = messageQueue
                /\ scheduled' = IF messageQueue' # <<>> /\ isReachable
                                THEN scheduled + 1 ELSE scheduled]_vars

C5_Witness ==
    /\ ret.op = "processMessageQueue" /\ ret.n = 5
    /\ Len(messageQueue) = 7 /\ nextId = 12
    /\ scheduled = 1
    /\ \A id \in 1..5 : msgs[id].fate = "delivered"

\* C6: at most one pass of the drain is running at any time, whichever of
\* its triggers started it.
C6_DrainsNeverOverlap ==
    Cardinality({c \in Ctx : drain[c].pc \in {"copied", "sent"}}) <= 1

\* C7: replyToMessage with an id whose handler is stored invokes that handler
\* for the first and only time, removes the entry and resolves true; with an
\* id that was never issued or was already resolved it rejects with
\* ERR_INVALID_HANDLER, invokes nothing and leaves the map unchanged.
C7_ReplySingleUse ==
    [][(/\ ret'.op = "replyToMessage"
        /\ UNCHANGED <<sessionVars, hasListeners, queueVars, drain, inflight,
                       taskVars, inbound, nextId, msgs>>) =>
          LET h == ret'.arg
          IN IF h \in replyHandlers
             THEN /\ invoked[h] = 0
                  /\ invoked' = [invoked EXCEPT ![h] = 1]
                  /\ replyHandlers' = replyHandlers \ {h}
                  /\ ret'.value = "true"
             ELSE /\ ret'.value = "ERR_INVALID_HANDLER"
                  /\ invoked' = invoked
                  /\ replyHandlers' = replyHandlers]_vars

C7_Witness ==
    /\ ret.op = "replyToMessage"
    /\ ret.value = "ERR_INVALID_HANDLER"
    /\ ret.arg # UnknownId
    /\ invoked[ret.arg] = 1
    /\ replyHandlers # {}

\* C8: sendMessage through index.js: Activated and reachable, the message
\* goes to the transport at once and the queue is unchanged; not Activated,
\* it is appended and the caller gets {queued: true, reason:
\* "session_not_activated"}; Activated but unreachable, it is appended and
\* the caller gets {queued: true, reason: "watch_not_reachable"}.
C8_Routing ==
    [][(nextId' = nextId + 1 /\ msgs'[nextId'].api = "js") =>
          LET id == nextId'
              n == Len(messageQueue)
          IN IF activationState = "activated" /\ isReachable
             THEN /\ messageQueue' = messageQueue
                  /\ \E f \in inflight' \ inflight :
                        f.entry.id = id /\ f.kind = "js"
                  /\ msgs'[id].result.settled = "pending"
             ELSE /\ Len(messageQueue') = n + 1
                  /\ SubSeq(messageQueue', 1, n) = messageQueue
                  /\ messageQueue'[n + 1].id = id
                  /\ inflight' = inflight
                  /\ msgs'[id].result.settled = "resolved"
                  /\ msgs'[id].result.queued
                  /\ msgs'[id].result.reason =
                        IF activationState # "activated"
                        THEN "session_not_activated" ELSE "watch_not_reachable"]_vars

C8_Witness ==
    \E a, b \in Sent :
        /\ msgs[a].api = "js" /\ msgs[a].result.reason = "watch_not_reachable"
        /\ msgs[b].api = "js" /\ ~msgs[b].enqueued /\ msgs[b].handed = 1

\* C9: whenever the host-facing sendMessage resolves with queued: true the
\* message was put into the native queue by that call.
C9_QueuedMeansEnqueued ==
    \A id \in Sent : msgs[id].result.queued => msgs[id].enqueued

\* C10: a send attempted while the session is not Activated or the watch is
\* not reachable resolves with a queued outcome for the caller, through
\* either wrapper.
C10_NeverSurfacedAsFailure ==
    \A id \in Sent :
        msgs[id].enqueued =>
            msgs[id].result.settled = "resolved" /\ msgs[id].result.queued

\* C11: a drained message whose send failed with a non-connectivity error is
\* not back in the queue, and its stored reply handler is no longer in
\* replyHandlers and has not been invoked.
C11_PermanentFailureDiscardsHandler ==
    \A id \in Sent :
        msgs[id].fate = "failedPermanent" =>
            /\ ~InQueue(id) /\ ~InRetryList(id)
            /\ id \notin replyHandlers
            /\ invoked[id] = 0

\* A step of clearMessageQueue.
ClearStep ==
    /\ ret'.op = "clearMessageQueue"
    /\ UNCHANGED <<sessionVars, hasListeners, isProcessingQueue, drain,
                   inflight, taskVars, inbound, nextId, invoked>>
ClearDiscards ==
    /\ messageQueue' = <<>>
    /\ \A n \in 1..Len(messageQueue) :
          messageQueue[n].handlerId \notin replyHandlers'
    /\ invoked' = invoked
NeverAnsweredOnceCleared ==
    \A id \in Sent :
        msgs[id].cleared =>
            /\ id \notin replyHandlers /\ id \notin replyHandlers'
            /\ invoked'[id] = invoked[id]

\* C12 (as amended): after clearMessageQueue the queue is empty, the reply
\* handler of every message that was in the queue has been removed without
\* being invoked, no reply is ever delivered for a cleared message, and,
\* while the module has listeners, a queue-updated event has been emitted.
C12_ClearWithListeners ==
    /\ [][NeverAnsweredOnceCleared]_vars
    /\ [][ClearStep =>
            /\ ClearDiscards
            /\ hasListeners => queueEvents' # queueEvents]_vars

C12_Witness ==
    /\ hasListeners
    /\ \E id \in Sent :
          msgs[id].cleared /\ msgs[id].fate = "delivered" /\ invoked[id] = 0

\* C12 (as stated): the same, with a queue-updated event emitted by every
\* clearMessageQueue.
C12_ClearAlwaysEmits ==
    /\ [][NeverAnsweredOnceCleared]_vars
    /\ [][ClearStep =>
            /\ ClearDiscards
            /\ queueEvents' # queueEvents]_vars

\* C13: clearMessageQueue returns the number of messages it removed, the
\* queue count immediately before the call, for every queue length.
C13_ClearReturnsCount ==
    [][ClearStep => ret'.n = Len(messageQueue)]_vars

\* C14: getQueueStatus reports count equal to the queue length; with an
\* empty queue oldestMessage and newestMessage are null; otherwise they are
\* the enqueue timestamps of the head and of the tail message, whatever the
\* shape of the payloads.
C14_StatusSnapshot ==
    [][(/\ ret'.op = "getQueueStatus"
        /\ UNCHANGED <<sessionVars, hasListeners, queueVars, replyHandlers,
                       drain, inflight, taskVars, inbound, nextId,
                       queueEvents, msgs, invoked>>) =>
          LET status == ret'.status
              n == Len(messageQueue)
          IN /\ status.count = n
             /\ IF n = 0
                THEN /\ status.oldestMessage = null
                     /\ status.newestMessage = null
                ELSE /\ status.oldestMessage = EnqueuedAt(messageQueue[1].id)
                     /\ status.newestMessage = EnqueuedAt(messageQueue[n].id)]_vars

\* A step in which a call of processMessageQueueInternal returns: the end
\* of a pass, or a call turned away by one of the two guards.
DrainReturns ==
    \/ \E c \in Ctx : drain[c].pc = "sent" /\ drain'[c].pc = "idle"
    \/ scheduled' = scheduled - 1 /\ drain' = drain
    \/ deferred' = deferred - 1 /\ drain' = drain
    \/ /\ ret'.op = "processMessageQueue" /\ ret' # ret
       /\ drain' = drain

\* C15: every call of the drain emits a queue-updated event (to the
\* listeners there are) before it returns: after a batch, with an empty
\* queue, and when turned away because a pass is running or the session is
\* not Activated.
C15_DrainAlwaysEmits ==
    [][(DrainReturns /\ hasListeners) => queueEvents' # queueEvents]_vars

\* A call of the drain was made or handed to the main queue in this step.
DrainTriggered ==
    \/ deferred' = deferred + 1
    \/ \E c \in Ctx : drain[c].pc = "idle" /\ drain'[c].pc = "entered"
    \/ isProcessingQueue

\* C16: a transport signal that leaves the session Activated and reachable
\* while the queue is non-empty triggers a drain, with no call of
\* processMessageQueue by the host.
C16_AutomaticDrain ==
    [][(/\ sessionVars' # sessionVars
        /\ activationState' = "activated" /\ isReachable'
        /\ messageQueue' # <<>>) => DrainTriggered]_vars

\* The step in which the transport reports that a transfer ended.
Finishes(transfer) ==
    /\ outstanding[transfer].state # "finished"
    /\ outstanding'[transfer].state = "finished"

\* The transfer an identifier is still tied to, by the registry or by a
\* stored observation; 0 if neither.
TiedTo(id) ==
    IF fileTransfers[id] # 0 THEN fileTransfers[id] ELSE progressObservations[id]

\* C17: when the transport reports a tracked transfer finished, with or
\* without an error, every identifier under which the transfer was registered
\* leaves the registry and the progress observations in that step, and no
\* fileTransferProgress event is sent afterwards for an identifier of a
\* finished transfer.
C17_FinishedIsForgotten ==
    [][/\ \A transfer \in Transfers :
              Finishes(transfer) =>
                  \A id \in KeysOf(transfer) :
                      /\ fileTransfers'[id] = 0
                      /\ progressObservations'[id] = 0
       /\ \A id \in TransferIds :
              (TiedTo(id) # 0 /\ outstanding[TiedTo(id)].state = "finished") =>
                  transferEvents'[id].progress = transferEvents[id].progress
      ]_vars

\* The step in which cancelFileTransfer(id) succeeds.
CancelSucceeds(id) ==
    /\ fileTransfers[id] # 0
    /\ fileTransfers'[id] = 0
    /\ ret'.op = "cancelFileTransfer" /\ ret'.arg = id /\ ret'.value = "true"

\* C18: when cancelFileTransfer(id) succeeds for a started transfer that has
\* reported progress 0.4, the transport's cancel has been called, an event
\* for id is sent by the call, id is in neither the registry nor the progress
\* observations, and after the call no further event is sent for id.
C18_CancelScenario ==
    [][/\ \A id \in TransferIds :
              (/\ CancelSucceeds(id)
               /\ outstanding[fileTransfers[id]].fraction = 400) =>
                  /\ outstanding'[fileTransfers[id]].cancels >= 1
                  /\ outstanding'[fileTransfers[id]].state # "outstanding"
                  /\ transferEvents'[id] # transferEvents[id]
                  /\ fileTransfers'[id] = 0
                  /\ progressObservations'[id] = 0
       /\ (ret.op = "cancelFileTransfer" /\ ret.value = "true" /\ ret' = ret) =>
              transferEvents'[ret.arg] = transferEvents[ret.arg]
      ]_vars

\* A step of cancelFileTransfer(id): the call leaves its result, and unlike
\* the transport's reports and the main queue it moves no fraction, ends no
\* transfer and posts or runs no block.
CancelStep(id) ==
    /\ ret'.op = "cancelFileTransfer" /\ ret'.arg = id
    /\ \A t \in Transfers :
          /\ outstanding'[t].fraction = outstanding[t].fraction
          /\ outstanding'[t].state = "finished" <=> outstanding[t].state = "finished"
    /\ UNCHANGED <<sessionVars, hasListeners, mainVars>>
InRegistry(id) == id \in TransferIds /\ fileTransfers[id] # 0

\* C19: cancelFileTransfer with an identifier that is not in the registry
\* rejects with ERR_TRANSFER_NOT_FOUND, calls no cancel of the transport and
\* leaves the registry unchanged; with an identifier that is in the registry
\* it resolves true and removes the identifier, and an identifier that has
\* left the registry never returns to it, so a second cancel of the same
\* identifier fails.
C19_CancelUnknown ==
    [][/\ \A id \in TransferIds \cup {UnknownId} :
              CancelStep(id) =>
                  IF InRegistry(id)
                  THEN /\ ret'.value = "true"
                       /\ fileTransfers'[id] = 0
                  ELSE /\ ret'.value = "ERR_TRANSFER_NOT_FOUND"
                       /\ outstanding' = outstanding
                       /\ fileTransfers' = fileTransfers
       /\ \A id \in 1..nextTransferId :
              fileTransfers[id] = 0 => fileTransfers'[id] = 0
      ]_vars

\* The second cancel of an identifier has failed: its entry is gone while
\* its observation still names the transfer that was cancelled.
C19_Witness ==
    /\ ret.op = "cancelFileTransfer" /\ ret.value = "ERR_TRANSFER_NOT_FOUND"
    /\ ret.arg \in TransferIds
    /\ fileTransfers[ret.arg] = 0
    /\ progressObservations[ret.arg] # 0
    /\ outstanding[progressObservations[ret.arg]].cancels = 1

\* The decile an integer percentage lies in.
Decile(percentage) == percentage \div 10

\* C20: a fileTransferProgress event is sent for an identifier only at a
\* sample whose integer percentage lies in a higher decile than the sample
\* before it, or reaches 100; a sample in the same decile as the one before
\* it sends no event.
C20_ProgressThrottled ==
    [][\A id \in TransferIds :
          transferEvents'[id].progress # transferEvents[id].progress =>
              LET transfer == progressObservations[id]
                  before == Percentage(outstanding[transfer].fraction)
                  after == Percentage(outstanding'[transfer].fraction)
              IN /\ transfer # 0
                 /\ \/ Decile(after) > Decile(before)
                    \/ after = 100 /\ before < 100
      ]_vars

\* A step in which the main queue runs the block at its head.
MainRuns ==
    /\ mainQueue # <<>>
    /\ mainQueue' = Tail(mainQueue)

\* C21: the progress value that an event of a transfer identifier carries
\* (a fileTransferProgress event, or the final fileTransferFinished event)
\* lies in [0,1], here 0..1000 thousandths, and is not below the value the
\* identifier's previous event carried; the transport's samples are
\* non-decreasing.
C21_ProgressMonotone ==
    [][MainRuns =>
          LET block == Head(mainQueue)
          IN block.name \in {"fileTransferProgress", "fileTransferFinished"} =>
                /\ emitted'[block.id] \in 0..1000
                /\ emitted[block.id] # null =>
                       emitted[block.id] <= emitted'[block.id]
      ]_vars

\* A progress event whose block ran after the transport had moved on, then
\* the completed event of the same identifier, have both been sent.
C21_Witness ==
    \E id \in TransferIds :
        /\ transferEvents[id].progress = 1
        /\ transferEvents[id].finished = 1
        /\ emitted[id] = CompletedProgress
        /\ mainQueue = <<>>

\* C22: transferFile for a file that does not exist, or while the session is
\* not activated, rejects at once, starts no transfer of the transport, adds
\* no entry to the registry or to the progress observations, and puts
\* nothing in any queue for later.
C22_TransferFailsAtOnce ==
    [][(\/ TransferFile(FALSE)
        \/ activationState # "activated" /\ TransferFile(TRUE)) =>
          /\ ret'.op = "transferFile"
          /\ ret'.value = IF activationState # "activated"
                          THEN "ERR_WATCH_SESSION_NOT_ACTIVATED"
                          ELSE "ERR_FILE_NOT_FOUND"
          /\ UNCHANGED <<outstanding, fileTransfers, progressObservations,
                         nextTransferId, mainQueue, messageQueue, deferred,
                         scheduled, inflight>>
      ]_vars

\* transferFile has rejected a missing file while the session was activated
\* and a transfer was under way.
C22_Witness ==
    /\ ret.op = "transferFile" /\ ret.value = "ERR_FILE_NOT_FOUND"
    /\ activationState = "activated"
    /\ Outstanding # {}

\* A step that calls processMessageQueueInternal, or would call it if the
\* caller's own test let it.
DrainCalled ==
    \/ ProcessMessageQueue
    \/ CheckWatchConnectivityStatus
    \/ \E error \in BOOLEAN : ActivationDidComplete(error)
    \/ RunDeferred
    \/ RunScheduled

\* C23: a call of the drain made while a pass is in progress or while the
\* session is not Activated does nothing: processMessageQueue resolves with
\* 0 processed, nothing is handed to the transport, no pass starts, and the
\* queue, the flag and the reply handlers are unchanged.
C23_DrainNoOp ==
    [][(/\ isProcessingQueue \/ activationState # "activated"
        /\ DrainCalled) =>
          /\ ProcessMessageQueue =>
                ret'.op = "processMessageQueue" /\ ret'.n = 0
          /\ UNCHANGED <<messageQueue, isProcessingQueue, replyHandlers,
                         inflight, drain, msgs, invoked>>
      ]_vars

\* processMessageQueue was turned away with 0 while a pass holds the flag
\* and the queue is not empty.
C23_Witness ==
    /\ ret.op = "processMessageQueue" /\ ret.n = 0
    /\ isProcessingQueue
    /\ activationState = "activated"
    /\ messageQueue # <<>>
    /\ \E c \in Ctx : drain[c].pc = "copied"

\* A step in which sendMessage calls queueMessage.
QueueMessageStep == nextId' = nextId + 1 /\ msgs'[nextId'].enqueued

\* The queue after the step is the queue before it with one entry, that of
\* the call, added at the tail.
AppendsOne ==
    /\ Len(messageQueue') = Len(messageQueue) + 1
    /\ SubSeq(messageQueue', 1, Len(messageQueue)) = messageQueue
    /\ messageQueue'[Len(messageQueue')].id = nextId'
    /\ \A k \in 1..Len(messageQueue) : messageQueue[k].id < nextId'

\* C24, with the listener condition: every queueMessage call appends exactly
\* one entry at the tail and leaves the entries already queued and their
\* order unchanged, so the queue holds the calls in their order; it sends a
\* messageQueueUpdated event if the module has listeners.
C24_EnqueueFifo ==
    [][QueueMessageStep =>
          /\ AppendsOne
          /\ hasListeners => queueEvents' # queueEvents]_vars

\* Two calls were queued in their order, the second with a listener present.
C24_Witness ==
    /\ Len(messageQueue) = 2
    /\ messageQueue[1].id = 1 /\ messageQueue[2].id = 2
    /\ hasListeners
    /\ queueEvents = 1
    /\ \A c \in Ctx : Idle(c)

\* C24 as stated: every queueMessage call appends one entry at the tail and
\* emits a queue-updated event.
C24_EnqueueAlwaysEmits ==
    [][QueueMessageStep =>
          /\ AppendsOne
          /\ queueEvents' # queueEvents]_vars

\* A step in which the transport delivers one of its signals to the module;
\* no signal touches the listeners, the queue or the sends in flight.
SignalStep ==
    /\ UNCHANGED <<hasListeners, messageQueue, inflight, nextId>>
    /\ \/ \E error \in BOOLEAN : ActivationDidComplete(error)
       \/ SessionWatchStateDidChange
       \/ \E reachable \in BOOLEAN : SignalActivation(reachable)
       \/ \E state \in ActivationStates, reachable \in BOOLEAN :
             SignalInactive(state, reachable)
       \/ \E reachable \in BOOLEAN : SignalWatchState(reachable)

\* The step in which a signal's callback reaches its watchStateUpdated: the
\* signal's own step, or for an activation that ran a pass, the end of it.
SignalReports ==
    \/ drain' = drain /\ SignalStep
    \/ /\ drain["delegate"].pc = "sent" /\ drain'["delegate"].pc = "idle"
       /\ drain["delegate"].trigger = "activation"

\* One watchStateUpdated event whose queuedMessages is the queue's length.
OneStateEvent ==
    /\ stateEvents'.count = (stateEvents.count + 1) % EventWrap
    /\ stateEvents'.queuedMessages = Len(messageQueue')

\* C25, with the listener condition: every transport signal (activation
\* completed, became inactive, deactivated, watch state changed) stamps
\* lastWatchStateChange, and if the module has listeners it sends one
\* watchStateUpdated event whose queuedMessages equals the queue length at
\* that moment.
C25_SignalStampsAndReports ==
    [][/\ SignalStep => lastWatchStateChange' # lastWatchStateChange
       /\ (SignalReports /\ hasListeners) => OneStateEvent
      ]_vars

\* A signal was reported to a listener while a message was queued.
C25_Witness ==
    /\ hasListeners
    /\ stateEvents.count = 1
    /\ stateEvents.queuedMessages = 1
    /\ Len(messageQueue) = 1
    /\ lastWatchStateChange = 1

\* C25 as stated: every transport signal stamps the time and emits one
\* state-changed event with the queue length.
C25_SignalAlwaysReports ==
    [][/\ SignalStep => lastWatchStateChange' # lastWatchStateChange
       /\ SignalReports => OneStateEvent
      ]_vars

\* An event that was sent while no listener was registered.
SentUnheard(j) == inbound[j].state \in {"unseen", "held"}

\* C26: an event emitted while no subscriber is registered is not stored for
\* later delivery: a step taken with no subscriber registered adds nothing
\* to the queue-updated, state-changed and transfer events the host has
\* received, and a message-received event sent while no subscriber was
\* registered is never received by a subscriber that registers afterwards.
C26_NoLateDelivery ==
    [][/\ ~hasListeners => UNCHANGED <<queueEvents, stateEvents, transferEvents>>
       /\ \A j \in 1..MaxInbound :
            SentUnheard(j) => inbound'[j].state # "seen"
      ]_vars

\* C27: the batch is removed from the queue before it is handed to the
\* transport, so under every interleaving of the triggers no message is
\* handed to the transport a second time since it last entered the queue
\* (a requeue after a transient failure starts the count again).
C27_HandedOncePerStay ==
    \A id \in OutIds : msgs[id].handed <= 1

\* C28: every invocation of a reply handler, by the transport's reply to an
\* immediate or a drained send, by replyToMessage, or by the default
\* acknowledgement, is of a handler that is stored and was never invoked
\* before, and removes its entry; a handler is therefore invoked at most
\* once, and one that was invoked or dropped is never invoked afterwards.
C28_HandlerAtMostOnce ==
    [][\A h \in HandlerIds :
          invoked'[h] # invoked[h] =>
              /\ invoked[h] = 0 /\ invoked'[h] = 1
              /\ h \in replyHandlers
              /\ h \notin replyHandlers'
      ]_vars

\* A drained message handed over twice and answered twice, and an inbound
\* message acknowledged by default, each handler invoked once.
C28_Witness ==
    /\ invoked[1] = 1 /\ msgs[1].enqueued /\ msgs[1].handed > 1
    /\ msgs[1].fate = "delivered" /\ inflight = {}
    /\ invoked[0 - 1] = 1 /\ inbound[1].state = "unseen"
    /\ replyHandlers = {}

\* The terminal events posted in this step.
TerminalPosted ==
    {n \in (Len(mainQueue) + 1)..Len(mainQueue') :
        mainQueue'[n].name \in {"fileTransferFinished", "fileTransferError"}}

\* C29: when the transport reports the end of a tracked transfer, exactly
\* one terminal event is produced for it (fileTransferFinished or
\* fileTransferError; events go to the registered listeners), and whichever
\* identifier the transfer was registered under and the host was given, the
\* event carries that identifier.
C29_OneTerminalEvent ==
    [][\A transfer \in Transfers :
          (Finishes(transfer) /\ KeysOf(transfer) # {} /\ hasListeners) =>
              /\ Cardinality(TerminalPosted) = 1
              /\ \A n \in TerminalPosted :
                    /\ mainQueue'[n].transfer = transfer
                    /\ \A id \in KeysOf(transfer) : mainQueue'[n].id = id
      ]_vars

\* The step in which a forced call of the drain is turned away by a guard.
TurnedAway ==
    /\ ret'.op = "processMessageQueue" /\ ret' # ret
    /\ drain' = drain

C31_FlagNeverLeftSet ==
    (\A c \in Ctx : Idle(c)) => ~isProcessingQueue

\* A forced pass has ended after one of its sends failed for a while and
\* was put back, and nothing is running.
C31_Witness ==
    /\ \A c \in Ctx : Idle(c)
    /\ ~isProcessingQueue
    /\ ret.op = "processMessageQueue" /\ ret.n = 1
    /\ msgs[1].fate = "failedTransient"
    /\ Len(messageQueue) = 1

\* The identifiers that have an entry in the registry.
Registered == {id \in TransferIds : fileTransfers[id] # 0}

\* C32: no two identifiers of the registry map to the same transfer, and
\* the registry never has more entries than there are transfers outstanding
\* at the transport.
C32_OneIdPerTransfer ==
    /\ \A id1, id2 \in Registered :
          fileTransfers[id1] = fileTransfers[id2] => id1 = id2
    /\ Cardinality(Registered) <= Cardinality(Outstanding)

\* The identifiers that have a stored progress observation.
Observed == {id \in TransferIds : progressObservations[id] # 0}

\* C33: after every operation the identifiers with a stored progress
\* observation are those of the registry, and both sets are empty once no
\* transfer is outstanding.
C33_RegistryAndObservationsInStep ==
    /\ Observed = Registered
    /\ Outstanding = {} => (Registered = {} /\ Observed = {})

\* A send of message id whose reply or error closure has not run yet.
AwaitsCallback(id) == \E f \in inflight : f.entry.id = id

\* C34: every entry of replyHandlers belongs to a message that is in the
\* queue (or held by a running pass for requeue), to a send whose reply or
\* error closure has not run, or to an inbound message that has not been
\* answered; the handler of a message that was delivered, dropped, lost or
\* cleared is gone.
C34_NoOrphanHandlers ==
    \A h \in replyHandlers :
        IF h \in OutIds
        THEN InQueue(h) \/ InRetryList(h) \/ AwaitsCallback(h)
        ELSE invoked[h] = 0

\* Message id is handed to the transport in this step, by a direct send or
\* by a pass of the drain.
HandedOver(id) == msgs'[id].handed > msgs[id].handed

\* Message id was enqueued and has been waiting in the queue since, never
\* handed to the transport and never requeued.
Waiting(id) == msgs[id].fate = "queued" /\ InQueue(id)

\* C35: messages reach the transport in the order in which they were
\* submitted: when a message is handed to the transport, no message
\* submitted before it is left waiting in the queue; in particular a
\* message sent while the session is Activated and reachable does not
\* overtake the queue.  Identifiers are given in submission order.
C35_SubmissionOrder ==
    [][\A a, b \in OutIds :
          (a < b /\ HandedOver(b) /\ Waiting(a)) => HandedOver(a)
      ]_vars

\* The dictionary the transport receives for flight f: the drain sends
\* messageCopy, the direct paths send what DirectEntry holds.
Handed(f) == IF f.kind = "queued" THEN messageCopy(f.entry) ELSE f.entry.payload

\* The keys that the module adds to a message for its own bookkeeping.
BookkeepingKeys == {"__queuedAt", "__hasReplyHandler", "__handlerId", "__replyId"}

\* C36: the payload handed to the transport when a queued message is
\* drained equals the payload an immediate send of the same message hands
\* over, for typed and untyped payloads and for both send paths, and no
\* bookkeeping key reaches the peer on either path.
C36_QueueTransparent ==
    \A f \in inflight :
        /\ f.kind = "queued" =>
              Handed(f) = DirectEntry(f.entry.id, msgs[f.entry.id].api,
                                      msgs[f.entry.id].message).payload
        /\ Handed(f).keys \cap BookkeepingKeys = {}

\* The caller's reply handler of message id is registered: in the native
\* replyHandlers for the callback path, in the wrapper's store for the
\* replyId path.
HandlerRegistered(id) ==
    IF msgs[id].api = "js" THEN id \in replyHandlers
    ELSE msgs[id].wrapperHandler = "stored"

\* The caller's reply handler of message id has been called with a reply.
HandlerInvoked(id) ==
    IF msgs[id].api = "js" THEN invoked[id] > 0
    ELSE msgs[id].wrapperHandler = "invoked"

\* The watch's reply to the drained send f arrives in this step.
QueuedReplyArrives(f) ==
    /\ f \in inflight
    /\ f.kind = "queued"
    /\ inflight' = inflight \ {f}
    /\ msgs'[f.entry.id].fate = "delivered"

\* C37: the reply handler given with a message that gets queued stays
\* registered while the message waits in the queue, and when the watch
\* replies to the drained message the caller's handler has been invoked,
\* on the native callback path and on the replyId path alike (listeners
\* being registered when the reply arrives).
C37_QueuedHandlerInvoked ==
    [][/\ \A id \in OutIds : Waiting(id)' => HandlerRegistered(id)'
       /\ \A f \in inflight :
             (QueuedReplyArrives(f) /\ hasListeners) => HandlerInvoked(f.entry.id)'
      ]_vars

====
